---- MODULE Spec2Model ----
(***************************************************************************)
(* A model of the godoo client: the session manager (authenticate,         *)
(* isAuthValid, getConnection), the call executor (executeRPC, CallOdoo,   *)
(* CallMethod, UpdateMultiple) and the error classifier                    *)
(* (parseOdooRPCError).                                                    *)
(*                                                                         *)
(* Texts (error messages) are sequences of tokens.  A token stands for a   *)
(* literal piece of text; the quote, the newline, the digits and the       *)
(* pieces "Fault " and ": " are tokens of their own, because the regular   *)
(* expression of parseOdooRPCError looks at them one by one.               *)
(***************************************************************************)
EXTENDS Integers, Sequences, FiniteSets, TLC

\* ------------------------------------------------------------------ bounds

MaxRecords == 2
MaxTime == 1
MaxTimeout == 1
MaxOps == 2
MaxParts == 3
MaxList == 2
MaxOptions == 3

\* --------------------------------------------------------- texts and tokens

TFault == "Fault "
TColon == ": "
TQuote == "'"
TNewline == "\\n"
TXmlPrefix == "XML-RPC fault: "
TOther == "x"
TBigNum == "99999999999999999999"
TModelWord == "model"
TSelfWord == "self"
TObjectWord == "object"
TCallPrefix == "failed to call Odoo method "
TOnModel == " on model "

Digits == {"0", "1", "2", "3", "7", TBigNum}

DigitValue(d) ==
    CASE d = "0" -> 0 [] d = "1" -> 1 [] d = "2" -> 2 [] d = "3" -> 3 [] d = "7" -> 7
      [] OTHER -> 0

\* The invalid-model and invalid-method phrases, as token sequences.
PhraseModelNotExist == <<"The model does not exist">>
PhraseNoModelNamed == <<"No model named">>
PhraseNotInRegistry == <<"not found in registry">>
PhraseObjectNoAttr == <<TQuote, TObjectWord, TQuote, " object has no attribute">>
PhraseNoMethod == <<"Object has no method">>
PhraseMethodNotExist == <<"method does not exist">>
PhraseMissingArg == <<"missing 1 required positional argument">>

\* The tokens whose literal text contains the word "model" / "self".
TokensWithModel == {TModelWord, "The model does not exist", "No model named", TOnModel}
TokensWithSelf == {TSelfWord}

\* strings.Contains(text, phrase), the phrase a token sequence.
Contains(text, phrase) ==
    \E i \in 1..(Len(text) - Len(phrase) + 1) :
        \A k \in 1..Len(phrase) : text[i + k - 1] = phrase[k]

\* strings.Contains(text, word), the word a part of one token.
ContainsWord(text, toks) == \E i \in 1..Len(text) : text[i] \in toks

\* strings.HasPrefix / strings.TrimPrefix with the one-token prefix "XML-RPC fault: ".
HasPrefix(text, tok) == Len(text) >= 1 /\ text[1] = tok

TrimPrefix(text, tok) == IF HasPrefix(text, tok) THEN SubSeq(text, 2, Len(text)) ELSE text

\* ------------------------------------------------------------ error values

Sentinels == {"ErrAuthenticationFailed", "ErrRecordNotFound", "ErrInvalidModel",
              "ErrInvalidMethod", "ErrOdooRPC", "ErrInvalidResponse",
              "context.Canceled", "context.DeadlineExceeded"}

\* An error value: its dynamic type, the sentinels errors.Is finds through its
\* Unwrap chain, its Error() text, and for *OdooRPCError the fields Code and
\* Message; orig is the text of the error it wraps.
MkErr(type, is, text, code, msg, orig) ==
    [type |-> type, is |-> is, text |-> text, code |-> code, msg |-> msg, orig |-> orig]

NilErr == MkErr("nil", {}, <<>>, 0, <<>>, <<>>)

\* An error of the transport (the xmlrpc library): a plain error with a text.
TransportErr(text) == MkErr("errorString", {}, text, 0, <<>>, <<>>)

ErrorsIs(e, sentinel) == sentinel \in e.is

\* ctx.Err() of a done context: context.Canceled or context.DeadlineExceeded.
CtxError(kind) == MkErr("ctx", {kind}, <<kind>>, 0, <<>>, <<>>)

\* ------------------------------------------------- the error classifier

\* The last index of the run of digit tokens that starts at i + 1 (i when none).
RECURSIVE DigitsEnd(_, _)
DigitsEnd(s, i) ==
    IF i + 1 <= Len(s) /\ s[i + 1] \in Digits THEN DigitsEnd(s, i + 1) ELSE i

\* The index of the first quote at or after k (0 when none before a newline or
\* the end: "." does not match a newline, and ".*?" stops at the first quote).
RECURSIVE ClosingQuote(_, _)
ClosingQuote(s, k) ==
    IF k > Len(s) THEN 0
    ELSE IF s[k] = TQuote THEN k
    ELSE IF s[k] = TNewline THEN 0
    ELSE ClosingQuote(s, k + 1)

\* Whether Fault (\d+): '(.*?)' matches starting at token i.
RegexMatchesAt(s, i) ==
    /\ i <= Len(s)
    /\ s[i] = TFault
    /\ LET j == DigitsEnd(s, i) IN
        /\ j > i
        /\ j + 2 <= Len(s)
        /\ s[j + 1] = TColon
        /\ s[j + 2] = TQuote
        /\ ClosingQuote(s, j + 3) # 0

\* regexp.FindStringSubmatch: the leftmost match, <<>> when there is none,
\* else <<whole, digits, message>>.
RECURSIVE FindFrom(_, _)
FindFrom(s, i) ==
    IF i > Len(s) THEN <<>>
    ELSE IF RegexMatchesAt(s, i)
         THEN LET j == DigitsEnd(s, i)
                  q == ClosingQuote(s, j + 3)
              IN  <<SubSeq(s, i, q), SubSeq(s, i + 1, j), SubSeq(s, j + 3, q - 1)>>
         ELSE FindFrom(s, i + 1)

FindStringSubmatch(s) == FindFrom(s, 1)

\* strconv.Atoi of a run of digit tokens: ok is FALSE when the number is out of
\* the range of int (the token TBigNum stands for such a numeral).
RECURSIVE AtoiValue(_)
AtoiValue(ds) ==
    IF ds = <<>> THEN 0
    ELSE 10 * AtoiValue(SubSeq(ds, 1, Len(ds) - 1)) + DigitValue(ds[Len(ds)])

Atoi(ds) ==
    IF \E k \in 1..Len(ds) : ds[k] = TBigNum
    THEN [ok |-> FALSE, value |-> 0]
    ELSE [ok |-> TRUE, value |-> AtoiValue(ds)]

\* faultCode of parseOdooRPCError.
FaultCode(errMsg) ==
    LET matches == FindStringSubmatch(errMsg) IN
    IF Len(matches) = 3 /\ Atoi(matches[2]).ok THEN Atoi(matches[2]).value ELSE 0

\* faultMessage of parseOdooRPCError.
FaultMessage(errMsg) ==
    LET matches == FindStringSubmatch(errMsg) IN
    IF Len(matches) = 3 THEN matches[3]
    ELSE IF HasPrefix(errMsg, TXmlPrefix) THEN TrimPrefix(errMsg, TXmlPrefix)
    ELSE errMsg

IsInvalidModelMessage(m) ==
    \/ Contains(m, PhraseModelNotExist)
    \/ Contains(m, PhraseNoModelNamed)
    \/ Contains(m, PhraseNotInRegistry)
    \/ (Contains(m, PhraseObjectNoAttr) /\ ContainsWord(m, TokensWithModel))

IsInvalidMethodMessage(m) ==
    \/ Contains(m, PhraseNoMethod)
    \/ Contains(m, PhraseMethodNotExist)
    \/ (Contains(m, PhraseMissingArg) /\ ContainsWord(m, TokensWithSelf))

\* fmt.Errorf("%w: %s (original: %w)", sentinel, faultMessage, err)
WrapClassified(sentinel, faultMessage, err) ==
    MkErr("wrapErrors", {sentinel} \cup err.is,
          <<sentinel, TColon>> \o faultMessage \o <<" (original: ">> \o err.text \o <<")">>,
          0, <<>>, err.text)

\* &OdooRPCError{OriginalError: err, Code: faultCode, Message: faultMessage}:
\* Unwrap gives OriginalError, Error() the text with ErrOdooRPC's message in it.
NewOdooRPCError(err, faultCode, faultMessage) ==
    MkErr("OdooRPCError", err.is,
          <<"godoo: Odoo XML-RPC call failed", TColon>> \o faultMessage
              \o <<" (original: ">> \o err.text \o <<")">>,
          faultCode, faultMessage, err.text)

parseOdooRPCError(err) ==
    IF err = NilErr THEN NilErr
    ELSE LET errMsg == err.text
             faultCode == FaultCode(errMsg)
             faultMessage == FaultMessage(errMsg)
         IN  IF IsInvalidModelMessage(faultMessage)
                 THEN WrapClassified("ErrInvalidModel", faultMessage, err)
             ELSE IF IsInvalidMethodMessage(faultMessage)
                 THEN WrapClassified("ErrInvalidMethod", faultMessage, err)
             ELSE NewOdooRPCError(err, faultCode, faultMessage)

\* fmt.Errorf("failed to call Odoo method '%s' on model '%s': %w", method, model, err)
\* of executeRPC and CallOdoo (the method and the model are plain names).
WrapCallPrefix ==
    <<TCallPrefix, TQuote, TOther, TQuote, TOnModel, TQuote, TOther, TQuote, TColon>>

WrapCallError(err) ==
    MkErr("wrapError", err.is, WrapCallPrefix \o err.text, 0, <<>>, err.text)

\* fmt.Errorf("failed to call method '%s' on model '%s': %w", ...) of CallMethod.
WrapMethodError(err) ==
    MkErr("wrapError", err.is,
          <<"failed to call method ", TQuote, TOther, TQuote, TOnModel, TQuote, TOther,
            TQuote, TColon>> \o err.text, 0, <<>>, err.text)

\* fmt.Errorf("%w: %s", ErrAuthenticationFailed, err.Error()) of authenticate.
AuthFailedError(err) ==
    MkErr("wrapError", {"ErrAuthenticationFailed"},
          <<"godoo: authentication failed", TColon>> \o err.text, 0, <<>>, <<>>)

\* fmt.Errorf("failed to connect to Odoo <which> endpoint: %w", err)
ConnectError(which) ==
    MkErr("wrapError", {}, <<"failed to connect to Odoo ", which, " endpoint", TColon, TOther>>,
          0, <<>>, <<TOther>>)

\* --------------------------------------------------------------- the state

VARIABLES
    now,          \* the clock (time.Now())
    authTimeout,  \* c.authTimeout
    uid,          \* c.uid (0: none)
    rpcClient,    \* c.rpcClient: a handle, an index of handles (0: nil)
    lastAuth,     \* c.lastAuth
    handles,      \* per object-endpoint handle created: how often it was closed
    pc,           \* where each task (goroutine running an operation) stands
    opKind,       \* the operation each task runs
    ctxErr,       \* the context of the operation: "" while not done, else the
                  \* kind of ctx.Err()
    authUid,      \* the local uid of authenticate
    conn,         \* the uid and rpcClient that getConnection returned
    callOf,       \* the remote call of the task's operation (0: none)
    obs,          \* what was seen of the task's operation: whether the session
                  \* was present and unexpired when getConnection was entered,
                  \* whether a remote login was performed and rejected, whether
                  \* the context was done while the call was in flight, whether
                  \* the outcome was delivered while the context was not done
    ret,          \* the result the operation returned
    calls,        \* the execute_kw calls: helper goroutine, transport, channel
    batch,        \* the UpdateMultiple in progress and its result
    nOps,         \* operations called so far
    crashed,      \* a nil pointer dereference ended the program
    perr,         \* parseOdooRPCError: its argument
    pres,         \* parseOdooRPCError: its result
    ppc,          \* parseOdooRPCError: "in" before the call, "out" after, "off"
    oneOp,        \* SearchOne / ReadOne: which of the two is called
    options,      \* SearchOne / ReadOne: the options argument
    kwargs,       \* SearchOne / ReadOne: the keyword options given to executeRPC
    rpcOut,       \* SearchOne / ReadOne: what executeRPC returned, error and list
    oneRet,       \* SearchOne / ReadOne: what the operation returned
    onePc,        \* SearchOne / ReadOne: "start", "called", "done", "off"
    newArgs,      \* New: the scheme of urlStr and the option list opts
    newPc,        \* New: where it is ("start", "opts", "done", "failed", "off") and the
                  \* index of the option applied next
    logger,       \* c.logger
    inputLen      \* len(ids), len(data) or len(idDataMap) of the operation called

vars == <<now, authTimeout, uid, rpcClient, lastAuth, handles, pc, opKind,
          ctxErr, authUid, conn, callOf, obs, ret, calls, batch, nOps, crashed,
          perr, pres, ppc, oneOp, options, kwargs, rpcOut, oneRet, onePc,
          newArgs, newPc, logger, inputLen>>

sessionVars == <<uid, rpcClient, lastAuth, handles>>
parseVars == <<perr, pres, ppc>>
oneVars == <<oneOp, options, kwargs, rpcOut, oneRet, onePc>>
newVars == <<newArgs, newPc, logger>>

\* The caller calls the public operations one after another.  A simple
\* operation runs as task 1; UpdateMultiple runs one task per record of its
\* idDataMap, the records being 1..n.
Tasks == 1..MaxRecords
\* The identities the remote may answer a login with: 0, or a user's id.
Uids == {0, 1}
\* The durations WithAuthTimeout is given: negative, zero or positive.
AuthTimeouts == -1..MaxTimeout
CtxKinds == {"context.Canceled", "context.DeadlineExceeded"}

\* The public operations: a typed helper that goes through executeRPC (Update,
\* a "write"), the two custom calls, and the per-record task of UpdateMultiple
\* (executeRPC with "write").
OpKinds == {"Update", "CallOdoo", "CallMethod"}
ChildKind == "UpdateMultiple.task"

\* make(chan error, 1)
ChanCap == 1

\* time.Time{}: far enough in the past for every timeout of the model.
ZeroTime == 0 - (MaxTime + MaxTimeout + 1)

\* What the remote answers to execute_kw when it refuses, and to a login it
\* rejects.
FaultAccessDenied == <<TFault, "3", TColon, TQuote, TOther, TQuote>>
FaultNoModel == <<TFault, "1", TColon, TQuote, "No model named", TOther, TQuote>>
RemoteFaults == {FaultAccessDenied, FaultNoModel}
ShutdownText == <<"connection is shut down">>
LoginRejected == <<TFault, "3", TColon, TQuote, TOther, TQuote>>

NoObs == [valid |-> FALSE, login |-> FALSE, rejected |-> FALSE,
          cancelInFlight |-> FALSE, deliveredFirst |-> FALSE]
NoRet == [returned |-> FALSE, err |-> NilErr, val |-> "zero"]
NoConn == [uid |-> 0, client |-> 0]
NoBatch == [st |-> "idle", kids |-> {}, failed |-> {}, mapNil |-> FALSE, err |-> NilErr]

\* No panic has ended the program (and the classifier is not checked alone).
Running == ~crashed /\ ppc = "off"

IsKid(t) == batch.st = "running" /\ t \in batch.kids

CtxDone == ctxErr # ""

\* The caller is not inside an operation.
CallerIdle == batch.st # "running" /\ \A t \in Tasks : pc[t] \in {"idle", "done"}

\* isAuthValid without its test of the age of the session.
isAuthValidIgnoringExpiry == uid # 0 /\ rpcClient # 0

\* isAuthValid taking a session of the age authTimeout for valid still.
isAuthValidInclusive == uid # 0 /\ rpcClient # 0 /\ now - lastAuth <= authTimeout

\* isAuthValid: c.uid != 0 && c.rpcClient != nil && time.Since(c.lastAuth) < c.authTimeout
isAuthValid == uid # 0 /\ rpcClient # 0 /\ now - lastAuth < authTimeout

\* The session as the specification describes it: an identity and a transport
\* handle are stored and now - lastAuth < authTimeout.
PresentAndUnexpired == uid # 0 /\ rpcClient # 0 /\ now - lastAuth < authTimeout

\* The tasks that wait in the select of executeRPC or CallOdoo for call c.
Selecting(c) == {t \in Tasks : pc[t] = "select" /\ callOf[t] = c}

\* A map of keyword options (and the Extra map of an Options struct), as a
\* record of the keys that occur: "" or 0 stands for a key that is not in the
\* map (the values put under the keys are never "" or 0).
NoKwargs == [context |-> "", limit |-> 0, offset |-> 0, order |-> "", active_test |-> ""]

\* SearchOne and ReadOne are not being called; New has returned the client.
OneIdle ==
    /\ oneOp = "off"
    /\ options = [ptr |-> "none"]
    /\ kwargs = NoKwargs
    /\ rpcOut = [err |-> NilErr, list |-> <<>>]
    /\ oneRet = [err |-> NilErr, val |-> "zero"]
    /\ onePc = "off"

NewIdle ==
    /\ newArgs = [scheme |-> "https", opts |-> <<>>]
    /\ newPc = [at |-> "off", i |-> 0]
    /\ logger = "client's"

Init ==
    /\ inputLen = 0
    /\ now = 0
    /\ authTimeout \in AuthTimeouts
    /\ uid = 0
    /\ rpcClient = 0
    /\ lastAuth = ZeroTime
    /\ handles = <<>>
    /\ pc = [t \in Tasks |-> "idle"]
    /\ opKind = [t \in Tasks |-> "Update"]
    /\ ctxErr = ""
    /\ authUid = [t \in Tasks |-> 0]
    /\ conn = [t \in Tasks |-> NoConn]
    /\ callOf = [t \in Tasks |-> 0]
    /\ obs = [t \in Tasks |-> NoObs]
    /\ ret = [t \in Tasks |-> NoRet]
    /\ calls = <<>>
    /\ batch = NoBatch
    /\ nOps = 0
    /\ crashed = FALSE
    /\ perr = NilErr
    /\ pres = NilErr
    /\ ppc = "off"
    /\ OneIdle
    /\ NewIdle

\* The operation of task t returns err and val.
Return(t, err, val) ==
    /\ ret' = [ret EXCEPT ![t] = [returned |-> TRUE, err |-> err, val |-> val]]
    /\ pc' = [pc EXCEPT ![t] = "done"]

\* The calls that have not run to their end.  A finished call (its outcome
\* sent, or returned to CallMethod) is forgotten when the next operation starts.
Unfinished(c) == c.st # "sent"

\* What a call of an operation resets: a fresh context, and the locals of the
\* tasks S that run it.
Fresh(S, k) ==
    /\ nOps' = nOps + 1
    /\ ctxErr' = ""
    /\ calls' = SelectSeq(calls, Unfinished)
    /\ pc' = [t \in Tasks |-> IF t \in S THEN "getConnection" ELSE "idle"]
    /\ opKind' = [t \in Tasks |-> IF t \in S THEN k ELSE "Update"]
    /\ obs' = [t \in Tasks |-> NoObs]
    /\ ret' = [t \in Tasks |-> NoRet]
    /\ conn' = [t \in Tasks |-> NoConn]
    /\ callOf' = [t \in Tasks |-> 0]
    /\ authUid' = [t \in Tasks |-> 0]
    /\ inputLen' = Cardinality(S)

\* The caller calls one of the simple public operations.
StartOp(k) ==
    /\ Running
    /\ CallerIdle
    /\ nOps < MaxOps
    /\ Fresh({1}, k)
    /\ batch' = NoBatch
    /\ UNCHANGED <<now, authTimeout, sessionVars, crashed, parseVars, oneVars,
                   newVars>>

\* The context of the running operation is cancelled or its deadline passes.
Cancel(kind) ==
    /\ Running
    /\ ~CallerIdle
    /\ ctxErr = ""
    /\ ctxErr' = kind
    /\ obs' = [t \in Tasks |->
                IF pc[t] = "select" /\ calls[callOf[t]].st = "inflight"
                  THEN [obs[t] EXCEPT !.cancelInFlight = TRUE] ELSE obs[t]]
    /\ UNCHANGED <<now, authTimeout, sessionVars, pc, opKind, authUid, conn,
                   callOf, ret, calls, batch, nOps, crashed, parseVars, oneVars,
                   newVars, inputLen>>

\* Time passes.
Tick ==
    /\ Running
    /\ now < MaxTime
    /\ now' = now + 1
    /\ UNCHANGED <<authTimeout, sessionVars, pc, opKind, ctxErr, authUid, conn,
                   callOf, obs, ret, calls, batch, nOps, crashed, parseVars, oneVars,
                   newVars, inputLen>>

\* getConnection's entry going on to return whatever is stored, never to
\* authenticate.
GetConnectionCheckWithoutAuth(t) ==
    /\ Running
    /\ pc[t] = "getConnection"
    /\ obs' = [obs EXCEPT ![t].valid = PresentAndUnexpired]
    /\ IF CtxDone
         THEN Return(t, CtxError(ctxErr), "zero")
         ELSE /\ pc' = [pc EXCEPT ![t] = "return"]
              /\ UNCHANGED ret
    /\ UNCHANGED <<now, authTimeout, sessionVars, opKind, ctxErr, authUid, conn,
                   callOf, calls, batch, nOps, crashed, parseVars, oneVars,
                   newVars, inputLen>>

\* getConnection's entry looking at the session before it looks at the context.
GetConnectionCheckSessionFirst(t) ==
    /\ Running
    /\ pc[t] = "getConnection"
    /\ obs' = [obs EXCEPT ![t].valid = PresentAndUnexpired]
    /\ IF ~isAuthValid
         THEN /\ pc' = [pc EXCEPT ![t] = "close"]
              /\ UNCHANGED ret
         ELSE IF CtxDone
           THEN Return(t, CtxError(ctxErr), "zero")
           ELSE /\ pc' = [pc EXCEPT ![t] = "return"]
                /\ UNCHANGED ret
    /\ UNCHANGED <<now, authTimeout, sessionVars, opKind, ctxErr, authUid, conn,
                   callOf, calls, batch, nOps, crashed, parseVars, oneVars,
                   newVars, inputLen>>

\* getConnection, its entry: the check of ctx.Done() and of isAuthValid.
GetConnectionCheck(t) ==
    /\ Running
    /\ pc[t] = "getConnection"
    /\ obs' = [obs EXCEPT ![t].valid = PresentAndUnexpired]
    /\ IF CtxDone
         THEN Return(t, CtxError(ctxErr), "zero")
         ELSE /\ pc' = [pc EXCEPT ![t] = IF isAuthValid THEN "return" ELSE "close"]
              /\ UNCHANGED ret
    /\ UNCHANGED <<now, authTimeout, sessionVars, opKind, ctxErr, authUid, conn,
                   callOf, calls, batch, nOps, crashed, parseVars, oneVars,
                   newVars, inputLen>>

\* getConnection going on to authenticate without closing the old handle.
GetConnectionCloseSkipped(t) ==
    /\ Running
    /\ pc[t] = "close"
    /\ pc' = [pc EXCEPT ![t] = "authenticate"]
    /\ UNCHANGED <<now, authTimeout, sessionVars, opKind, ctxErr, authUid,
                   conn, callOf, obs, ret, calls, batch, nOps, crashed, parseVars, oneVars,
                   newVars, inputLen>>

\* getConnection closing the old handle without clearing c.rpcClient.
GetConnectionCloseKeepsHandle(t) ==
    /\ Running
    /\ pc[t] = "close"
    /\ IF rpcClient # 0
         THEN handles' = [handles EXCEPT ![rpcClient] = @ + 1]
         ELSE UNCHANGED handles
    /\ pc' = [pc EXCEPT ![t] = "authenticate"]
    /\ UNCHANGED <<now, authTimeout, uid, rpcClient, lastAuth, opKind, ctxErr, authUid,
                   conn, callOf, obs, ret, calls, batch, nOps, crashed, parseVars, oneVars,
                   newVars, inputLen>>

\* getConnection clearing c.rpcClient without calling Close() on it.
GetConnectionCloseLeavesOpen(t) ==
    /\ Running
    /\ pc[t] = "close"
    /\ rpcClient' = 0
    /\ pc' = [pc EXCEPT ![t] = "authenticate"]
    /\ UNCHANGED <<now, authTimeout, uid, lastAuth, handles, opKind, ctxErr, authUid,
                   conn, callOf, obs, ret, calls, batch, nOps, crashed, parseVars, oneVars,
                   newVars, inputLen>>

\* getConnection: if c.rpcClient != nil { c.rpcClient.Close(); c.rpcClient = nil }
GetConnectionClose(t) ==
    /\ Running
    /\ pc[t] = "close"
    /\ IF rpcClient # 0
         THEN /\ handles' = [handles EXCEPT ![rpcClient] = @ + 1]
              /\ rpcClient' = 0
         ELSE UNCHANGED <<handles, rpcClient>>
    /\ pc' = [pc EXCEPT ![t] = "authenticate"]
    /\ UNCHANGED <<now, authTimeout, uid, lastAuth, opKind, ctxErr, authUid,
                   conn, callOf, obs, ret, calls, batch, nOps, crashed, parseVars, oneVars,
                   newVars, inputLen>>

\* authenticate, up to the blocking login call: the check of ctx.Done(), the
\* client of the common endpoint (xmlrpc.NewClient may fail), and the call.
AuthenticateBegin(t) ==
    /\ Running
    /\ pc[t] = "authenticate"
    /\ IF CtxDone
         THEN /\ Return(t, CtxError(ctxErr), "zero")
              /\ UNCHANGED obs
         ELSE \E ok \in BOOLEAN :
                IF ok
                  THEN /\ pc' = [pc EXCEPT ![t] = "login"]
                       /\ obs' = [obs EXCEPT ![t].login = TRUE]
                       /\ UNCHANGED ret
                  ELSE /\ Return(t, ConnectError("common"), "zero")
                       /\ UNCHANGED obs
    /\ UNCHANGED <<now, authTimeout, sessionVars, opKind, ctxErr, authUid, conn,
                   callOf, calls, batch, nOps, crashed, parseVars, oneVars,
                   newVars, inputLen>>

\* commonRPCClient.Call("authenticate", ...) returns: the remote rejects the
\* login (an error) or answers with an identity.
AuthenticateLoginReturns(t) ==
    /\ Running
    /\ pc[t] = "login"
    /\ \/ /\ Return(t, AuthFailedError(TransportErr(LoginRejected)), "zero")
          /\ obs' = [obs EXCEPT ![t].rejected = TRUE]
          /\ UNCHANGED authUid
       \/ \E u \in Uids :
            /\ authUid' = [authUid EXCEPT ![t] = u]
            /\ pc' = [pc EXCEPT ![t] = "store"]
            /\ UNCHANGED <<ret, obs>>
    /\ UNCHANGED <<now, authTimeout, sessionVars, opKind, ctxErr, conn, callOf,
                   calls, batch, nOps, crashed, parseVars, oneVars,
                   newVars, inputLen>>

\* authenticate without its second check of ctx.Done(): the session is stored
\* although the context is done.
AuthenticateStoreWithoutCheck(t) ==
    /\ Running
    /\ pc[t] = "store"
    /\ \E ok \in BOOLEAN :
         IF ok
           THEN /\ handles' = Append(handles, 0)
                /\ uid' = authUid[t]
                /\ rpcClient' = Len(handles) + 1
                /\ lastAuth' = now
                /\ pc' = [pc EXCEPT ![t] = "return"]
                /\ UNCHANGED ret
           ELSE /\ Return(t, ConnectError("object"), "zero")
                /\ UNCHANGED sessionVars
    /\ UNCHANGED <<now, authTimeout, opKind, ctxErr, authUid, conn, callOf, obs,
                   calls, batch, nOps, crashed, parseVars, oneVars,
                   newVars, inputLen>>

\* authenticate after the login: the second check of ctx.Done(), the client of
\* the object endpoint, and the store of uid, rpcClient and lastAuth.
AuthenticateStore(t) ==
    /\ Running
    /\ pc[t] = "store"
    /\ IF CtxDone
         THEN /\ Return(t, CtxError(ctxErr), "zero")
              /\ UNCHANGED sessionVars
         ELSE \E ok \in BOOLEAN :
                IF ok
                  THEN /\ handles' = Append(handles, 0)
                       /\ uid' = authUid[t]
                       /\ rpcClient' = Len(handles) + 1
                       /\ lastAuth' = now
                       /\ pc' = [pc EXCEPT ![t] = "return"]
                       /\ UNCHANGED ret
                  ELSE /\ Return(t, ConnectError("object"), "zero")
                       /\ UNCHANGED sessionVars
    /\ UNCHANGED <<now, authTimeout, opKind, ctxErr, authUid, conn, callOf, obs,
                   calls, batch, nOps, crashed, parseVars, oneVars,
                   newVars, inputLen>>

\* A new execute_kw call with the connection getConnection returned: whether a
\* helper goroutine makes it, the identity and the handle it uses, how far it
\* is, whether the request went out to the remote, the error it returned,
\* whether the remote carried the method out, callChan, and whether the call
\* returned only after its operation had stopped waiting for it.
NewCall(helper, st) ==
    [helper |-> helper, uid |-> uid, handle |-> rpcClient, st |-> st, sent |-> FALSE,
     out |-> NilErr, applied |-> FALSE, chan |-> <<>>, late |-> FALSE]

\* getConnection returns c.uid and c.rpcClient, and the operation goes on to its
\* remote call.  executeRPC and CallOdoo make the channel and start the helper
\* goroutine; CallMethod calls rpcClient.Call itself.
GetConnectionReturn(t) ==
    /\ Running
    /\ pc[t] = "return"
    /\ conn' = [conn EXCEPT ![t] = [uid |-> uid, client |-> rpcClient]]
    /\ callOf' = [callOf EXCEPT ![t] = Len(calls) + 1]
    /\ IF opKind[t] = "CallMethod"
         THEN /\ crashed' = (rpcClient = 0)
              /\ calls' = Append(calls, [NewCall(FALSE, "inflight") EXCEPT
                                          !.sent = rpcClient # 0 /\ handles[rpcClient] = 0])
              /\ pc' = [pc EXCEPT ![t] = "call"]
         ELSE /\ calls' = Append(calls, NewCall(TRUE, "spawned"))
              /\ pc' = [pc EXCEPT ![t] = "select"]
              /\ UNCHANGED crashed
    /\ UNCHANGED <<now, authTimeout, sessionVars, opKind, ctxErr, authUid, obs,
                   ret, batch, nOps, parseVars, oneVars,
                   newVars, inputLen>>

\* The helper goroutine calls rpcClient.Call("execute_kw", ...): the call is
\* issued.  On a nil client the program panics; on a closed one nothing goes
\* out and the call will fail.
HelperCall(c) ==
    /\ Running
    /\ calls[c].st = "spawned"
    /\ IF calls[c].handle = 0
         THEN /\ crashed' = TRUE
              /\ UNCHANGED calls
         ELSE /\ calls' = [calls EXCEPT ![c] = [@ EXCEPT !.st = "inflight",
                                   !.sent = handles[calls[c].handle] = 0]]
              /\ UNCHANGED crashed
    /\ UNCHANGED <<now, authTimeout, sessionVars, pc, opKind, ctxErr, authUid,
                   conn, callOf, obs, ret, batch, nOps, parseVars, oneVars,
                   newVars, inputLen>>

\* What the transport call c can return: the remote has carried the method out
\* (nil), or has answered with a fault; on a handle closed before the call
\* nothing happened, and if the handle was closed meanwhile the call fails,
\* whatever the remote did with it.
TransportOutcomes(c) ==
    IF ~calls[c].sent
      THEN {[out |-> TransportErr(ShutdownText), applied |-> FALSE]}
    ELSE IF handles[calls[c].handle] > 0
      THEN {[out |-> TransportErr(ShutdownText), applied |-> done] : done \in BOOLEAN}
    ELSE {[out |-> NilErr, applied |-> TRUE]}
           \cup {[out |-> TransportErr(f), applied |-> FALSE] : f \in RemoteFaults}

\* The helper goroutine sending on an unbuffered channel: the send needs the
\* operation to be waiting in its select.
HelperReturnsUnbuffered(c) ==
    /\ Running
    /\ calls[c].st = "inflight"
    /\ calls[c].helper
    /\ Selecting(c) # {}
    /\ \E o \in TransportOutcomes(c) :
         calls' = [calls EXCEPT ![c] = [@ EXCEPT !.st = "sent", !.out = o.out,
                     !.applied = o.applied, !.chan = Append(@, o.out),
                     !.late = (Selecting(c) = {})]]
    /\ obs' = [t \in Tasks |->
                IF t \in Selecting(c) /\ ~CtxDone
                  THEN [obs[t] EXCEPT !.deliveredFirst = TRUE] ELSE obs[t]]
    /\ UNCHANGED <<now, authTimeout, sessionVars, pc, opKind, ctxErr, authUid,
                   conn, callOf, ret, batch, nOps, crashed, parseVars, oneVars,
                   newVars, inputLen>>

\* The helper goroutine: rpcClient.Call returns, then callChan <- callErr.
HelperReturns(c) ==
    /\ Running
    /\ calls[c].st = "inflight"
    /\ calls[c].helper
    /\ Len(calls[c].chan) < ChanCap
    /\ \E o \in TransportOutcomes(c) :
         calls' = [calls EXCEPT ![c] = [@ EXCEPT !.st = "sent", !.out = o.out,
                     !.applied = o.applied, !.chan = Append(@, o.out),
                     !.late = (Selecting(c) = {})]]
    /\ obs' = [t \in Tasks |->
                IF t \in Selecting(c) /\ ~CtxDone
                  THEN [obs[t] EXCEPT !.deliveredFirst = TRUE] ELSE obs[t]]
    /\ UNCHANGED <<now, authTimeout, sessionVars, pc, opKind, ctxErr, authUid,
                   conn, callOf, ret, batch, nOps, crashed, parseVars, oneVars,
                   newVars, inputLen>>

\* The ctx.Done() case returning context.Canceled whatever ctx.Err() is.
SelectCtxDoneAlwaysCanceled(t) ==
    /\ Running
    /\ pc[t] = "select"
    /\ CtxDone
    /\ Return(t, CtxError("context.Canceled"), "zero")
    /\ UNCHANGED <<now, authTimeout, sessionVars, opKind, ctxErr, authUid, conn,
                   callOf, obs, calls, batch, nOps, crashed, parseVars, oneVars,
                   newVars, inputLen>>

\* The ctx.Done() case aborting the remote call before it returns.
SelectCtxDoneAbortsCall(t) ==
    /\ Running
    /\ pc[t] = "select"
    /\ CtxDone
    /\ Return(t, CtxError(ctxErr), "zero")
    /\ calls' = [calls EXCEPT ![callOf[t]] =
                  IF @.st = "sent" THEN @
                  ELSE [@ EXCEPT !.st = "sent", !.out = TransportErr(ShutdownText)]]
    /\ UNCHANGED <<now, authTimeout, sessionVars, opKind, ctxErr, authUid, conn,
                   callOf, obs, batch, nOps, crashed, parseVars, oneVars,
                   newVars, inputLen>>

\* select, case <-ctx.Done(): return ctx.Err().
SelectCtxDone(t) ==
    /\ Running
    /\ pc[t] = "select"
    /\ CtxDone
    /\ Return(t, CtxError(ctxErr), "zero")
    /\ UNCHANGED <<now, authTimeout, sessionVars, opKind, ctxErr, authUid, conn,
                   callOf, obs, calls, batch, nOps, crashed, parseVars, oneVars,
                   newVars, inputLen>>

\* The callChan case returning the error without classifying it.
SelectReceiveUnclassified(t) ==
    /\ Running
    /\ pc[t] = "select"
    /\ calls[callOf[t]].chan # <<>>
    /\ LET err == Head(calls[callOf[t]].chan) IN
        /\ calls' = [calls EXCEPT ![callOf[t]].chan = Tail(@)]
        /\ IF err = NilErr
             THEN Return(t, NilErr, "result")
             ELSE Return(t, WrapCallError(err), "zero")
    /\ UNCHANGED <<now, authTimeout, sessionVars, opKind, ctxErr, authUid, conn,
                   callOf, obs, batch, nOps, crashed, parseVars, oneVars,
                   newVars, inputLen>>

\* select, case err = <-callChan: nil, or the classified error.
SelectReceive(t) ==
    /\ Running
    /\ pc[t] = "select"
    /\ calls[callOf[t]].chan # <<>>
    /\ LET err == Head(calls[callOf[t]].chan) IN
        /\ calls' = [calls EXCEPT ![callOf[t]].chan = Tail(@)]
        /\ IF err = NilErr
             THEN Return(t, NilErr, "result")
             ELSE Return(t, parseOdooRPCError(WrapCallError(err)), "zero")
    /\ UNCHANGED <<now, authTimeout, sessionVars, opKind, ctxErr, authUid, conn,
                   callOf, obs, batch, nOps, crashed, parseVars, oneVars,
                   newVars, inputLen>>

\* CallMethod: its rpcClient.Call returns, and CallMethod returns the result or
\* the wrapped error.
CallMethodReturns(t) ==
    /\ Running
    /\ pc[t] = "call"
    /\ calls[callOf[t]].st = "inflight"
    /\ \E o \in TransportOutcomes(callOf[t]) :
        /\ calls' = [calls EXCEPT ![callOf[t]] = [@ EXCEPT !.st = "sent", !.out = o.out,
                       !.applied = o.applied]]
        /\ IF o.out = NilErr
             THEN Return(t, NilErr, "result")
             ELSE Return(t, WrapMethodError(o.out), "zero")
    /\ UNCHANGED <<now, authTimeout, sessionVars, opKind, ctxErr, authUid, conn,
                   callOf, obs, batch, nOps, crashed, parseVars, oneVars,
                   newVars, inputLen>>

\* UpdateMultiple(ctx, model, idDataMap) with the records 1..n: an empty map is
\* answered at once, else one goroutine per record is started, each running
\* executeRPC.
UpdateMultipleStart(n) ==
    /\ Running
    /\ CallerIdle
    /\ nOps < MaxOps
    /\ Fresh(1..n, ChildKind)
    /\ batch' = IF n = 0 THEN [NoBatch EXCEPT !.st = "returned"]
                         ELSE [NoBatch EXCEPT !.st = "running", !.kids = 1..n]
    /\ UNCHANGED <<now, authTimeout, sessionVars, crashed, parseVars, oneVars,
                   newVars>>

\* The join putting every record into the map, the updated ones with nil.
UpdateMultipleJoinAllRecords ==
    /\ Running
    /\ batch.st = "running"
    /\ \A t \in batch.kids : pc[t] = "done"
    /\ LET allUpdates == {<<t, ret[t].err>> : t \in batch.kids}
       IN  batch' = IF ctxErr # ""
                      THEN [batch EXCEPT !.st = "returned", !.failed = {}, !.mapNil = TRUE,
                                         !.err = CtxError(ctxErr)]
                      ELSE [batch EXCEPT !.st = "returned", !.failed = allUpdates,
                                         !.mapNil = FALSE, !.err = NilErr]
    /\ UNCHANGED <<now, authTimeout, sessionVars, pc, opKind, ctxErr, authUid,
                   conn, callOf, obs, ret, calls, nOps, crashed, parseVars, oneVars,
                   newVars, inputLen>>

\* The join returning the collected map together with the context's error.
UpdateMultipleJoinKeepsResults ==
    /\ Running
    /\ batch.st = "running"
    /\ \A t \in batch.kids : pc[t] = "done"
    /\ LET failedUpdates == {<<t, ret[t].err>> : t \in {k \in batch.kids : ret[k].err # NilErr}}
       IN  batch' = [batch EXCEPT !.st = "returned", !.failed = failedUpdates,
                       !.mapNil = FALSE,
                       !.err = IF ctxErr # "" THEN CtxError(ctxErr) ELSE NilErr]
    /\ UNCHANGED <<now, authTimeout, sessionVars, pc, opKind, ctxErr, authUid,
                   conn, callOf, obs, ret, calls, nOps, crashed, parseVars, oneVars,
                   newVars, inputLen>>

\* UpdateMultiple after wg.Wait(): the failures are collected from the results
\* channel; a done context turns the result into (nil, ctx.Err()).
UpdateMultipleJoin ==
    /\ Running
    /\ batch.st = "running"
    /\ \A t \in batch.kids : pc[t] = "done"
    /\ LET failedUpdates == {<<t, ret[t].err>> : t \in {k \in batch.kids : ret[k].err # NilErr}}
       IN  batch' = IF ctxErr # ""
                      THEN [batch EXCEPT !.st = "returned", !.failed = {}, !.mapNil = TRUE,
                                         !.err = CtxError(ctxErr)]
                      ELSE [batch EXCEPT !.st = "returned", !.failed = failedUpdates,
                                         !.mapNil = FALSE, !.err = NilErr]
    /\ UNCHANGED <<now, authTimeout, sessionVars, pc, opKind, ctxErr, authUid,
                   conn, callOf, obs, ret, calls, nOps, crashed, parseVars, oneVars,
                   newVars, inputLen>>

\* The steps of the tasks, of the helper goroutines and of the environment
\* (the clock, the context, the remote).
Step ==
    \/ \E kind \in CtxKinds : Cancel(kind)
    \/ Tick
    \/ \E t \in Tasks : GetConnectionCheck(t)
    \/ \E t \in Tasks : GetConnectionClose(t)
    \/ \E t \in Tasks : AuthenticateBegin(t)
    \/ \E t \in Tasks : AuthenticateLoginReturns(t)
    \/ \E t \in Tasks : AuthenticateStore(t)
    \/ \E t \in Tasks : GetConnectionReturn(t)
    \/ \E c \in 1..Len(calls) : HelperCall(c)
    \/ \E c \in 1..Len(calls) : HelperReturns(c)
    \/ \E t \in Tasks : SelectCtxDone(t)
    \/ \E t \in Tasks : SelectReceive(t)

\* One caller calling the simple operations one after another.
Next ==
    \/ \E k \in OpKinds : StartOp(k)
    \/ \E t \in Tasks : CallMethodReturns(t)
    \/ Step

Spec == Init /\ [][Next]_vars

\* A client as an earlier operation left it: never authenticated, or
\* authenticated at time 0 with one open handle, the clock anywhere since.
\* The caller has one operation left to call.
InitBatch ==
    /\ inputLen = 0
    /\ now \in 0..MaxTime
    /\ authTimeout \in AuthTimeouts
    /\ \/ uid = 0 /\ rpcClient = 0 /\ lastAuth = ZeroTime /\ handles = <<>>
       \/ uid = 1 /\ rpcClient = 1 /\ lastAuth = 0 /\ handles = <<0>>
    /\ pc = [t \in Tasks |-> "idle"]
    /\ opKind = [t \in Tasks |-> "Update"]
    /\ ctxErr = ""
    /\ authUid = [t \in Tasks |-> 0]
    /\ conn = [t \in Tasks |-> NoConn]
    /\ callOf = [t \in Tasks |-> 0]
    /\ obs = [t \in Tasks |-> NoObs]
    /\ ret = [t \in Tasks |-> NoRet]
    /\ calls = <<>>
    /\ batch = NoBatch
    /\ nOps = MaxOps - 1
    /\ crashed = FALSE
    /\ perr = NilErr
    /\ pres = NilErr
    /\ ppc = "off"
    /\ OneIdle
    /\ NewIdle

\* One call of UpdateMultiple, its per-record tasks running concurrently.
NextBatch ==
    \/ \E n \in 0..MaxRecords : UpdateMultipleStart(n)
    \/ UpdateMultipleJoin
    \/ Step

SpecBatch == InitBatch /\ [][NextBatch]_vars

\* ------------------------------------------- the error classifier, alone

\* The texts parseOdooRPCError is tried on: an optional prefix (the one the
\* transport puts before a fault, or the one executeRPC wraps the error in), an
\* optional fault header, and up to MaxParts pieces of message.
Prefixes == {<<>>, <<TXmlPrefix>>, WrapCallPrefix}

Headers ==
    {<<>>,
     <<TFault, "3", TColon, TQuote>>,
     <<TFault, "0", TColon, TQuote>>,
     <<TFault, "1", "2", TColon, TQuote>>,
     <<TFault, TBigNum, TColon, TQuote>>,
     <<TFault, TColon, TQuote>>}

Parts ==
    {<<TOther>>, <<TQuote>>, <<TNewline>>, <<TModelWord>>, <<TSelfWord>>,
     PhraseModelNotExist, PhraseNoModelNamed, PhraseNotInRegistry, PhraseObjectNoAttr,
     PhraseNoMethod, PhraseMethodNotExist, PhraseMissingArg,
     <<TFault, "7", TColon, TQuote>>}

RECURSIVE Bodies(_)
Bodies(n) ==
    IF n = 0 THEN {<<>>}
    ELSE LET shorter == Bodies(n - 1) IN
         shorter \cup {b \o part : b \in shorter, part \in Parts}

ParseInputs(n) ==
    {NilErr} \cup {TransportErr(p \o h \o b) : p \in Prefixes, h \in Headers, b \in Bodies(n)}

InitParse ==
    /\ inputLen = 0
    /\ now = 0
    /\ authTimeout = 0
    /\ uid = 0
    /\ rpcClient = 0
    /\ lastAuth = ZeroTime
    /\ handles = <<>>
    /\ pc = [t \in Tasks |-> "idle"]
    /\ opKind = [t \in Tasks |-> "Update"]
    /\ ctxErr = ""
    /\ authUid = [t \in Tasks |-> 0]
    /\ conn = [t \in Tasks |-> NoConn]
    /\ callOf = [t \in Tasks |-> 0]
    /\ obs = [t \in Tasks |-> NoObs]
    /\ ret = [t \in Tasks |-> NoRet]
    /\ calls = <<>>
    /\ batch = NoBatch
    /\ nOps = 0
    /\ crashed = FALSE
    /\ perr \in ParseInputs(MaxParts)
    /\ pres = NilErr
    /\ ppc = "in"
    /\ OneIdle
    /\ NewIdle

\* A call of parseOdooRPCError(perr).
ParseCall ==
    /\ ppc = "in"
    /\ OneIdle
    /\ NewIdle
    /\ pres' = parseOdooRPCError(perr)
    /\ ppc' = "out"
    /\ UNCHANGED <<now, authTimeout, sessionVars, pc, opKind, ctxErr, authUid, conn,
                   callOf, obs, ret, calls, batch, nOps, crashed, perr, oneVars,
                   newVars, inputLen>>

NextParse == ParseCall

SpecParse == InitParse /\ [][NextParse]_vars

\* ------------------------------------------------------------- the claims

\* getConnection of task t has returned, a connection or an error.
GetConnectionReturned(t) == callOf[t] # 0 \/ ret[t].returned

\* The connection stored in the client.
StoredConn == [uid |-> uid, client |-> rpcClient]

\* C1, as the specification states it: once getConnection has returned, it has
\* performed a remote login exactly when the session was absent or expired at
\* its check, and when the session was present and unexpired it has returned
\* the stored identity and handle.
C1_LoginExactlyWhenInvalid ==
    \A t \in Tasks :
        GetConnectionReturned(t) =>
            /\ obs[t].login <=> ~obs[t].valid
            /\ obs[t].valid => callOf[t] # 0 /\ conn[t] = StoredConn

\* C1, amended: getConnection performs a remote login only when the session is
\* absent or expired at its check; if it returns without a login although the
\* session was absent or expired, it returns the error of a done context or of
\* the client of the common endpoint; when the session is present and unexpired
\* it performs no login and returns the stored identity and the stored, open
\* handle, or the error of a context that was already done.
C1_LoginOnlyWhenInvalid ==
    \A t \in Tasks :
        /\ obs[t].login => ~obs[t].valid
        /\ GetConnectionReturned(t) /\ obs[t].valid =>
              IF callOf[t] # 0
                THEN conn[t] = StoredConn /\ rpcClient # 0 /\ handles[rpcClient] = 0
                ELSE ret[t].err \in {CtxError(k) : k \in CtxKinds}
        /\ GetConnectionReturned(t) /\ ~obs[t].valid /\ ~obs[t].login =>
              /\ callOf[t] = 0
              /\ ret[t].err \in {CtxError(k) : k \in CtxKinds} \cup {ConnectError("common")}

\* A second operation has found the session present and unexpired and has got
\* the stored connection without a login.
C1_Witness ==
    /\ nOps = 2
    /\ obs[1].valid /\ ~obs[1].login
    /\ callOf[1] # 0 /\ conn[1] = StoredConn /\ conn[1].uid # 0

\* C2, as the specification states it: when authenticate stores its success the
\* identity, a fresh handle and lastAuth = now are stored together and, the
\* timeout being positive, the session is valid at once; and no operation goes
\* on to a login while a handle of a successful login is stored and less than
\* authTimeout has passed since.
C2_ValidAfterSuccess ==
    [][\A t \in Tasks :
        /\ (pc[t] = "store" /\ pc'[t] = "return" /\ authTimeout > 0) =>
              /\ uid' = authUid[t] /\ lastAuth' = now
              /\ rpcClient' = Len(handles) + 1 /\ handles'[rpcClient'] = 0
              /\ PresentAndUnexpired'
        /\ (pc[t] = "getConnection" /\ pc'[t] = "close") =>
              ~(rpcClient # 0 /\ authTimeout > 0 /\ now - lastAuth < authTimeout)
      ]_vars

\* The execute_kw call c is issued in this step: the helper goroutine, or
\* CallMethod itself, calls the transport.
IssuedNow(c) ==
    /\ nOps' = nOps
    /\ calls'[c].st = "inflight"
    /\ c > Len(calls) \/ calls[c].st = "spawned"

\* C3, as the specification states it: at the moment an execute_kw call is
\* issued, it has an identity and a handle, and now - lastAuth < authTimeout.
C3_ValidAtIssue ==
    [][\A c \in 1..Len(calls') :
        IssuedNow(c) =>
            /\ calls'[c].uid # 0 /\ calls'[c].handle # 0
            /\ now - lastAuth < authTimeout
      ]_vars

\* C3, amended: for a single caller, every execute_kw call is made with the
\* identity and the handle that getConnection returned, and either the session
\* was present and unexpired at the moment getConnection checked it, or
\* getConnection performed a login for this operation.
C3_ValidAtCheckOrLoggedIn ==
    \A t \in Tasks :
        callOf[t] # 0 =>
            /\ calls[callOf[t]].uid = conn[t].uid
            /\ calls[callOf[t]].handle = conn[t].client
            /\ obs[t].valid \/ obs[t].login

\* A call is in flight that was issued on a session found valid at the check
\* and expired since.
C3_Witness ==
    \E t \in Tasks :
        /\ callOf[t] # 0
        /\ calls[callOf[t]].st = "inflight" /\ calls[callOf[t]].sent
        /\ obs[t].valid /\ ~obs[t].login
        /\ now - lastAuth >= authTimeout

\* C4, as the specification states it: an operation whose login the remote
\* rejected returns an error that matches ErrAuthenticationFailed and has
\* issued no execute_kw call; so does UpdateMultiple when the login of one of
\* its records was rejected.
C4_AuthFailureReturned ==
    /\ \A t \in Tasks :
          ret[t].returned /\ obs[t].rejected =>
              ErrorsIs(ret[t].err, "ErrAuthenticationFailed") /\ callOf[t] = 0
    /\ (batch.st = "returned" /\ \E t \in batch.kids : obs[t].rejected) =>
          ErrorsIs(batch.err, "ErrAuthenticationFailed")

\* What executeRPC and CallOdoo return for the outcome out of the remote call.
ClassifiedOutcome(out) ==
    IF out = NilErr
      THEN [returned |-> TRUE, err |-> NilErr, val |-> "result"]
      ELSE [returned |-> TRUE, err |-> parseOdooRPCError(WrapCallError(out)), val |-> "zero"]

\* Task t leaves the select of executeRPC or CallOdoo in this step.
LeavesSelect(t) == nOps' = nOps /\ pc[t] = "select" /\ pc'[t] = "done"

\* C5, as the specification states it: an operation whose context was done
\* while its execute_kw call was in flight has returned the context's error
\* and the zero result.
C5_CancelInFlightReturnsCtxError ==
    \A t \in Tasks :
        ret[t].returned /\ obs[t].cancelInFlight =>
            ret[t].err = CtxError(ctxErr) /\ ret[t].val = "zero"

\* C5, amended: if the context is done and the remote call has not delivered
\* its outcome when the select of executeRPC or CallOdoo is resolved, the
\* operation returns the context's error and the zero result, and what it has
\* returned is not changed by the later outcome of the call.  (If the outcome
\* is delivered after the signal fired but before the select is resolved,
\* either may be returned.)
C5_CancelBeforeDelivery ==
    [][\A t \in Tasks :
        /\ (LeavesSelect(t) /\ CtxDone /\ calls[callOf[t]].chan = <<>>) =>
              ret'[t] = [returned |-> TRUE, err |-> CtxError(ctxErr), val |-> "zero"]
        /\ (nOps' = nOps /\ ret[t].returned) => ret'[t] = ret[t]
      ]_vars

\* An operation has returned the error of its context, done while the call was
\* in flight, and the call is in flight still.
C5_Witness ==
    \E t \in Tasks :
        /\ ret[t] = [returned |-> TRUE, err |-> CtxError(ctxErr), val |-> "zero"]
        /\ obs[t].cancelInFlight
        /\ calls[callOf[t]].st = "inflight"

\* C6, as the specification states it: an operation whose remote call
\* delivered its outcome while the context was not done has returned that
\* outcome, nil or the classified error.
C6_DeliveredFirstReturnsOutcome ==
    \A t \in Tasks :
        ret[t].returned /\ obs[t].deliveredFirst =>
            ret[t] = ClassifiedOutcome(calls[callOf[t]].out)

\* C6, amended: if the context is not done when the select of executeRPC is
\* resolved, the operation returns the outcome the remote call delivered, nil
\* or the classified error; and whenever it returns something else than the
\* context's error, that is the delivered outcome.  (If the signal fires after
\* the delivery but before the select is resolved, either may be returned.)
C6_OutcomeWhenNotCancelled ==
    [][\A t \in Tasks :
        (LeavesSelect(t) /\ (~CtxDone \/ ret'[t].err.type # "ctx")) =>
            /\ calls[callOf[t]].chan # <<>>
            /\ ret'[t] = ClassifiedOutcome(Head(calls[callOf[t]].chan))
      ]_vars

\* An operation has returned the classified error of a remote call that
\* delivered it while the context was not done.
C6_Witness ==
    \E t \in Tasks :
        /\ ret[t].returned /\ obs[t].deliveredFirst /\ ~CtxDone
        /\ ret[t].err.type = "OdooRPCError"
        /\ ret[t] = ClassifiedOutcome(calls[callOf[t]].out)

\* C7: cancellation is stop-waiting, not abort.  The step in which an operation
\* returns the error of its context changes nothing of its remote call, and no
\* step takes away a call that has not run to its end: it is still there
\* after the step, and if it has ended, then with an outcome of the transport.
C7_CancelLeavesCallRunning ==
    [][/\ \A t \in Tasks :
            (LeavesSelect(t) /\ ret'[t].err.type = "ctx") => calls' = calls
       /\ \A c \in 1..Len(calls) :
            Unfinished(calls[c]) =>
                \E d \in 1..Len(calls') :
                    /\ calls'[d].uid = calls[c].uid /\ calls'[d].handle = calls[c].handle
                    /\ calls'[d].st = "sent" =>
                          [out |-> calls'[d].out, applied |-> calls'[d].applied]
                              \in TransportOutcomes(c)
      ]_vars

\* An Update has returned the error of its context, and its write, which
\* returned only later, has taken effect on the remote.
C7_Witness ==
    \E t \in Tasks :
        /\ opKind[t] = "Update"
        /\ ret[t].returned /\ ret[t].err.type = "ctx" /\ ret[t].val = "zero"
        /\ callOf[t] # 0
        /\ calls[callOf[t]].st = "sent" /\ calls[callOf[t]].late
        /\ calls[callOf[t]].out = NilErr /\ calls[callOf[t]].applied

\* C8, as the specification states it: whenever an operation waits for a
\* blocking remote call (the login of authenticate, the call of CallMethod, the
\* call of executeRPC or CallOdoo) and its context is done, it can return the
\* context's error at once, without the call having returned.
C8_EveryCallRaced ==
    \A t \in Tasks :
        (Running /\ CtxDone /\ pc[t] \in {"login", "call", "select"}) =>
            ENABLED (Next /\ pc'[t] = "done" /\ ret'[t].err = CtxError(ctxErr))

\* Whether the text has the form "Fault N: '...'" from token i on.
FaultFormAt(s, i) ==
    /\ s[i] = TFault
    /\ LET j == DigitsEnd(s, i) IN
        /\ j > i
        /\ j + 2 <= Len(s)
        /\ s[j + 1] = TColon
        /\ s[j + 2] = TQuote
        /\ \E k \in (j + 3)..Len(s) : s[k] = TQuote

\* The number N of the first "Fault N: '...'" of the text, if it has one that
\* an int can hold.
FormCode(s) ==
    IF \E i \in 1..Len(s) : FaultFormAt(s, i)
      THEN LET i == CHOOSE i \in 1..Len(s) :
                        FaultFormAt(s, i) /\ \A h \in 1..(i - 1) : ~FaultFormAt(s, h)
           IN  Atoi(SubSeq(s, i + 1, DigitsEnd(s, i)))
      ELSE [ok |-> FALSE, value |-> 0]

\* C9, as the specification states it: parseOdooRPCError maps nil to nil and a
\* non-nil error to a non-nil one: to one matching ErrInvalidModel if its text
\* contains an invalid-model phrase, else to one matching ErrInvalidMethod if
\* its text contains an invalid-method phrase, else to a generic *OdooRPCError.
C9_TotalThreeWay ==
    ppc = "out" =>
        IF perr = NilErr THEN pres = NilErr
        ELSE /\ pres # NilErr
             /\ IF IsInvalidModelMessage(perr.text)
                    THEN ErrorsIs(pres, "ErrInvalidModel")
                ELSE IF IsInvalidMethodMessage(perr.text)
                    THEN ErrorsIs(pres, "ErrInvalidMethod")
                ELSE pres.type = "OdooRPCError"

\* C10, as the specification states it: the result of parseOdooRPCError for a
\* non-nil error keeps the full original message, carries the code N when the
\* text has the form "Fault N: '...'", and carries the code 0 only when no
\* numeric code can be parsed (or N is 0 itself).
C10_PreservesMessageAndCode ==
    (ppc = "out" /\ perr # NilErr) =>
        /\ pres.orig = perr.text
        /\ FormCode(perr.text).ok => pres.code = FormCode(perr.text).value
        /\ pres.code = 0 => ~FormCode(perr.text).ok \/ FormCode(perr.text).value = 0

\* C11, as the specification states it: the generic *OdooRPCError that
\* executeRPC and CallOdoo return for a failure of the remote matches
\* ErrOdooRPC under errors.Is.
C11_GenericErrorIsOdooRPC ==
    \A t \in Tasks :
        (ret[t].returned /\ ret[t].err.type = "OdooRPCError") =>
            ErrorsIs(ret[t].err, "ErrOdooRPC")

\* ------------------------------------------------- SearchOne and ReadOne

NoExtra == [limit |-> 0, offset |-> 0, active_test |-> ""]
Extras ==
    {NoExtra, [NoExtra EXCEPT !.limit = 5], [NoExtra EXCEPT !.offset = 7],
     [NoExtra EXCEPT !.active_test = "false"],
     [NoExtra EXCEPT !.limit = 5, !.active_test = "false"]}

\* The values of a pointer to an Options struct (ptr is "set").
OptionsStructs ==
    [ptr : {"set"}, Context : {"", "lang"}, Limit : {-1, 0, 1, 5}, Offset : {-1, 0, 2},
     Order : {"", "name asc"}, Extra : Extras]

\* No options given (ptr is "none"), and a nil pointer (ptr is "nil").
NoOptions(ptr) ==
    [ptr |-> ptr, Context |-> "", Limit |-> 0, Offset |-> 0, Order |-> "", Extra |-> NoExtra]

\* The options argument: none given, a nil pointer, or a pointer to a struct.
OptionsArgs == {NoOptions("none"), NoOptions("nil")} \cup OptionsStructs

\* func (o *Options) ToRPC(): context, limit, offset and order when set, then
\* every entry of Extra on top of them.
ToRPC(o) ==
    IF o.ptr # "set" THEN NoKwargs
    ELSE LET rpcOptions ==
                 [context |-> o.Context,
                  limit |-> IF o.Limit > 0 THEN o.Limit ELSE 0,
                  offset |-> IF o.Offset > 0 THEN o.Offset ELSE 0,
                  order |-> o.Order,
                  active_test |-> ""]
         IN  [rpcOptions EXCEPT
                !.limit = IF o.Extra.limit # 0 THEN o.Extra.limit ELSE @,
                !.offset = IF o.Extra.offset # 0 THEN o.Extra.offset ELSE @,
                !.active_test = o.Extra.active_test]

\* c.parseOptions(options...)
parseOptions(o) == IF o.ptr \in {"none", "nil"} THEN NoKwargs ELSE ToRPC(o)

\* searchOptions of SearchOne.
SearchOptions(o) ==
    IF o.ptr \in {"none", "nil"}
      THEN [NoOptions("set") EXCEPT !.Limit = 1]
      ELSE [ptr |-> "set", Context |-> o.Context, Limit |-> 1, Offset |-> o.Offset,
            Order |-> o.Order, Extra |-> o.Extra]

\* The lists the remote may answer a search or a read with.
RECURSIVE Lists(_)
Lists(n) ==
    IF n = 0 THEN {<<>>}
    ELSE LET shorter == Lists(n - 1) IN
         shorter \cup {Append(l, x) : l \in shorter, x \in {1, 2}}

\* What executeRPC may return: an error of getConnection, the context's error,
\* a classified error of the remote call, or nil with the list decoded into reply.
ExecuteRPCErrors ==
    {CtxError(k) : k \in CtxKinds}
        \cup {AuthFailedError(TransportErr(LoginRejected)), ConnectError("common"),
              ConnectError("object")}
        \cup {parseOdooRPCError(WrapCallError(TransportErr(f))) :
                  f \in RemoteFaults \cup {ShutdownText}}

ExecuteRPCOutcomes(n) ==
    {[err |-> e, list |-> <<>>] : e \in ExecuteRPCErrors}
        \cup {[err |-> NilErr, list |-> l] : l \in Lists(n)}

\* fmt.Errorf("%w: for model '%s' with ...", ErrRecordNotFound, ...)
RecordNotFoundError ==
    MkErr("wrapError", {"ErrRecordNotFound"},
          <<"godoo: no record found for the given criteria", TColon, TOther>>, 0, <<>>,
          <<"godoo: no record found for the given criteria">>)

\* The error returned without a record although the call failed.
FirstOrNotFoundAlways(out) ==
    IF out.list = <<>> THEN [err |-> RecordNotFoundError, val |-> "zero"]
    ELSE [err |-> NilErr, val |-> Head(out.list)]

\* SearchOne and ReadOne after their remote call: the failure, or
\* ErrRecordNotFound for an empty list, or the first element.
FirstOrNotFound(out) ==
    IF out.err # NilErr THEN [err |-> out.err, val |-> "zero"]
    ELSE IF out.list = <<>> THEN [err |-> RecordNotFoundError, val |-> "zero"]
    ELSE [err |-> NilErr, val |-> Head(out.list)]

InitOne ==
    /\ inputLen = 0
    /\ now = 0
    /\ authTimeout = 0
    /\ uid = 0
    /\ rpcClient = 0
    /\ lastAuth = ZeroTime
    /\ handles = <<>>
    /\ pc = [t \in Tasks |-> "idle"]
    /\ opKind = [t \in Tasks |-> "Update"]
    /\ ctxErr = ""
    /\ authUid = [t \in Tasks |-> 0]
    /\ conn = [t \in Tasks |-> NoConn]
    /\ callOf = [t \in Tasks |-> 0]
    /\ obs = [t \in Tasks |-> NoObs]
    /\ ret = [t \in Tasks |-> NoRet]
    /\ calls = <<>>
    /\ batch = NoBatch
    /\ nOps = 0
    /\ crashed = FALSE
    /\ perr = NilErr
    /\ pres = NilErr
    /\ ppc = "off"
    /\ oneOp \in {"SearchOne", "ReadOne"}
    /\ options \in OptionsArgs
    /\ kwargs = NoKwargs
    /\ rpcOut = [err |-> NilErr, list |-> <<>>]
    /\ oneRet = [err |-> NilErr, val |-> "zero"]
    /\ onePc = "start"
    /\ NewIdle

OneUnchanged ==
    UNCHANGED <<now, authTimeout, sessionVars, pc, opKind, ctxErr, authUid, conn, callOf,
                obs, ret, calls, batch, nOps, crashed, parseVars, newVars, inputLen>>

\* SearchOne builds searchOptions and calls executeRPC with searchOptions.ToRPC().
SearchOneCall ==
    /\ onePc = "start"
    /\ oneOp = "SearchOne"
    /\ kwargs' = ToRPC(SearchOptions(options))
    /\ onePc' = "called"
    /\ UNCHANGED <<oneOp, options, rpcOut, oneRet>>
    /\ OneUnchanged

\* ReadOne calls Read, which calls executeRPC with c.parseOptions(options...).
ReadOneCall ==
    /\ onePc = "start"
    /\ oneOp = "ReadOne"
    /\ kwargs' = parseOptions(options)
    /\ onePc' = "called"
    /\ UNCHANGED <<oneOp, options, rpcOut, oneRet>>
    /\ OneUnchanged

\* executeRPC returns, and SearchOne or ReadOne returns.
OneReturns ==
    /\ onePc = "called"
    /\ \E out \in ExecuteRPCOutcomes(MaxList) :
        /\ rpcOut' = out
        /\ oneRet' = FirstOrNotFound(out)
    /\ onePc' = "done"
    /\ UNCHANGED <<oneOp, options, kwargs>>
    /\ OneUnchanged

NextOne == SearchOneCall \/ ReadOneCall \/ OneReturns

SpecOne == InitOne /\ [][NextOne]_vars

\* C12: SearchOne and ReadOne return an error matching ErrRecordNotFound
\* exactly when the remote call succeeded with an empty list; for a non-empty
\* list they return its first element and nil; when the call failed they return
\* that failure.
C12_NotFoundIffEmpty ==
    onePc = "done" =>
        /\ ErrorsIs(oneRet.err, "ErrRecordNotFound") <=>
              (rpcOut.err = NilErr /\ rpcOut.list = <<>>)
        /\ (rpcOut.err = NilErr /\ rpcOut.list # <<>>) =>
              oneRet = [err |-> NilErr, val |-> Head(rpcOut.list)]
        /\ rpcOut.err # NilErr => oneRet = [err |-> rpcOut.err, val |-> "zero"]

\* SearchOne has returned ErrRecordNotFound for an empty list of ids.
C12_Witness ==
    /\ onePc = "done" /\ oneOp = "SearchOne"
    /\ rpcOut = [err |-> NilErr, list |-> <<>>]
    /\ ErrorsIs(oneRet.err, "ErrRecordNotFound")

\* C17, as the specification states it: the keyword options of SearchOne's
\* search call have limit = 1, whatever the caller's Options.
C17_SearchOneLimitOne ==
    (oneOp = "SearchOne" /\ onePc \in {"called", "done"}) =>
        kwargs.limit = 1

\* ------------------------------------------------------- UpdateMultiple

\* The records whose update returned an error, each with that error.
FailedRecords == {<<t, ret[t].err>> : t \in {k \in batch.kids : ret[k].err # NilErr}}

C14_ConnectionFailureIsTopLevel ==
    (batch.st = "returned"
        /\ \E t \in batch.kids : callOf[t] = 0 /\ ret[t].err # NilErr)
      => batch.err # NilErr

LeakedHandles == {h \in 1..Len(handles) : h # rpcClient /\ handles[h] = 0}

\* C16: re-authentication is not mutually exclusive.  A handle is overwritten
\* without having been closed only when two tasks have performed a login
\* concurrently (and the witness shows that this happens).
C16_LeakOnlyByConcurrentLogin ==
    LeakedHandles # {} => Cardinality({t \in Tasks : obs[t].login}) >= 2

\* Two tasks of UpdateMultiple found the session absent or expired, both
\* logged in and both stored a handle; the first to be stored was overwritten
\* and is still open.
C16_Witness ==
    /\ batch.kids = {1, 2}
    /\ \A t \in batch.kids : ~obs[t].valid /\ obs[t].login /\ callOf[t] # 0
    /\ rpcClient # 0
    /\ \E h \in LeakedHandles : \E t \in batch.kids : conn[t].client = h

\* C18, as the specification states it: whichever of executeRPC, CallOdoo and
\* CallMethod made the call, an operation that returns the remote's invalid-model
\* fault returns an error matching ErrInvalidModel.
C18_ClassifiedOnEveryPath ==
    \A t \in Tasks :
        (ret[t].returned /\ callOf[t] # 0 /\ ret[t].err.type # "ctx"
            /\ calls[callOf[t]].out = TransportErr(FaultNoModel))
          => ErrorsIs(ret[t].err, "ErrInvalidModel")

\* C20: an operation that finds its context done at the entry of getConnection
\* returns the context's error in that step, with no login and no execute_kw
\* call, and leaves uid, rpcClient, lastAuth and the handles (the old one is
\* not closed) as they were.
C20_DoneContextAtGetConnection ==
    [][\A t \in Tasks :
        (nOps' = nOps /\ pc[t] = "getConnection" /\ pc'[t] # "getConnection" /\ CtxDone) =>
            /\ pc'[t] = "done"
            /\ ret'[t] = [returned |-> TRUE, err |-> CtxError(ctxErr), val |-> "zero"]
            /\ ~obs'[t].login /\ callOf'[t] = 0 /\ calls' = calls
            /\ UNCHANGED sessionVars
      ]_vars

\* An operation has returned the context's error from the entry of
\* getConnection on an expired session, whose handle is still stored and open.
C20_Witness ==
    \E t \in Tasks :
        /\ ret[t] = [returned |-> TRUE, err |-> CtxError(ctxErr), val |-> "zero"]
        /\ callOf[t] = 0 /\ ~obs[t].login /\ ~obs[t].valid
        /\ uid # 0 /\ rpcClient # 0 /\ handles[rpcClient] = 0
        /\ authTimeout > 0 /\ now - lastAuth >= authTimeout

\* ------------------------------------------------------------------------
\* New and its functional options.

\* authTimeout: 6 * time.Hour, in hours.
DefaultAuthTimeout == 6

Schemes == {"https", "http", "ftp"}

\* The options of an option list: WithLogger(logger), WithLoggerEnv(env) and
\* WithAuthTimeout(d).
OptionValues ==
    {[name |-> "WithLogger", env |-> "", d |-> 0]}
      \cup [name : {"WithLoggerEnv"}, env : {"development", "production"}, d : {0}]
      \cup [name : {"WithAuthTimeout"}, env : {""}, d : AuthTimeouts]

OptionLists(n) == UNION {[1..k -> OptionValues] : k \in 0..n}

\* createLogger(env): the logger built from the development configuration
\* for EnvDevelopment and from the production one otherwise, or zap.NewNop()
\* when cfg.Build() fails.
createLogger(env) ==
    {IF env = "development" THEN "development" ELSE "production", "nop"}

Has(opts, name) == \E i \in 1..Len(opts) : opts[i].name = name

InitNew ==
    /\ inputLen = 0
    /\ now = 0
    /\ authTimeout = 0
    /\ uid = 0
    /\ rpcClient = 0
    /\ lastAuth = ZeroTime
    /\ handles = <<>>
    /\ pc = [t \in Tasks |-> "idle"]
    /\ opKind = [t \in Tasks |-> "Update"]
    /\ ctxErr = ""
    /\ authUid = [t \in Tasks |-> 0]
    /\ conn = [t \in Tasks |-> NoConn]
    /\ callOf = [t \in Tasks |-> 0]
    /\ obs = [t \in Tasks |-> NoObs]
    /\ ret = [t \in Tasks |-> NoRet]
    /\ calls = <<>>
    /\ batch = NoBatch
    /\ nOps = 0
    /\ crashed = FALSE
    /\ perr = NilErr
    /\ pres = NilErr
    /\ ppc = "off"
    /\ OneIdle
    /\ newArgs \in [scheme : Schemes, opts : OptionLists(MaxOptions)]
    /\ newPc = [at |-> "start", i |-> 0]
    /\ logger = "none"

NewUnchanged ==
    UNCHANGED <<now, sessionVars, pc, opKind, ctxErr, authUid, conn, callOf,
                obs, ret, calls, batch, nOps, crashed, parseVars, oneVars,
                newArgs, inputLen>>

\* New checks the scheme of the URL and builds the client with its defaults.
NewBegin ==
    /\ newPc.at = "start"
    /\ IF newArgs.scheme \notin {"https", "http"}
         THEN /\ newPc' = [at |-> "failed", i |-> 0]
              /\ UNCHANGED <<authTimeout, logger>>
         ELSE /\ newPc' = [at |-> "opts", i |-> 1]
              /\ authTimeout' = DefaultAuthTimeout
              /\ logger' \in createLogger("production")
    /\ NewUnchanged

\* for _, opt := range opts { opt(client) }: one option is applied.
NewApplyOption ==
    /\ newPc.at = "opts"
    /\ newPc.i <= Len(newArgs.opts)
    /\ LET opt == newArgs.opts[newPc.i] IN
        /\ logger' \in CASE opt.name = "WithLogger" -> {"injected"}
                         [] opt.name = "WithLoggerEnv" -> createLogger(opt.env)
                         [] OTHER -> {logger}
        /\ authTimeout' = IF opt.name = "WithAuthTimeout" THEN opt.d ELSE authTimeout
    /\ newPc' = [newPc EXCEPT !.i = @ + 1]
    /\ NewUnchanged

\* New returns the client.
NewReturn ==
    /\ newPc.at = "opts"
    /\ newPc.i > Len(newArgs.opts)
    /\ newPc' = [at |-> "done", i |-> 0]
    /\ UNCHANGED <<authTimeout, logger>>
    /\ NewUnchanged

NextNew == NewBegin \/ NewApplyOption \/ NewReturn

SpecNew == InitNew /\ [][NextNew]_vars

\* C19, as the documentation states it: a client built with both WithLogger
\* and WithLoggerEnv in its option list has the logger WithLogger injected,
\* in whichever order the two appear.
C19_WithLoggerWins ==
    (newPc.at = "done" /\ Has(newArgs.opts, "WithLogger")
        /\ Has(newArgs.opts, "WithLoggerEnv"))
      => logger = "injected"

\* ------------------------------------------------------------------------
\* The session across failures and across operations (one caller).

\* The operation of task t has ended in authenticate's second check of
\* ctx.Done(): a login was made and not rejected, no call followed, and the
\* context's error was returned.
LoginCancelled(t) ==
    /\ ret[t].returned /\ ret[t].err.type = "ctx"
    /\ obs[t].login /\ ~obs[t].rejected /\ callOf[t] = 0

\* Task t takes a step of its own operation from the place p.
StepsFrom(t, p) == nOps' = nOps /\ pc[t] = p /\ pc'[t] # p

\* C21: if the context is done when authenticate comes to store the session of
\* a successful login, it returns the context's error and changes nothing of
\* uid, rpcClient, lastAuth and the handles; the session is invalid then and
\* stays so up to the next operation, whose getConnection, its context not
\* done, goes on to authenticate, which goes on to the login.
C21_CancelledBeforeStore ==
    [][\A t \in Tasks :
        /\ (StepsFrom(t, "store") /\ CtxDone) =>
              /\ ret'[t] = [returned |-> TRUE, err |-> CtxError(ctxErr), val |-> "zero"]
              /\ pc'[t] = "done"
              /\ UNCHANGED sessionVars
              /\ LoginCancelled(t)'
        /\ LoginCancelled(t) =>
              /\ rpcClient = 0 /\ ~isAuthValid /\ ~PresentAndUnexpired
              /\ UNCHANGED sessionVars
              /\ ~isAuthValid'
        /\ (StepsFrom(t, "getConnection") /\ rpcClient = 0 /\ ~CtxDone) =>
              pc'[t] = "close"
        /\ (StepsFrom(t, "authenticate") /\ ~CtxDone) =>
              \/ pc'[t] = "login" /\ obs'[t].login
              \/ ret'[t].err = ConnectError("common")
      ]_vars

\* The login of a second operation, on an expired session, succeeded, and the
\* context was done before the store: the identity and lastAuth of the first
\* login are still there, and no handle.
C21_Witness ==
    \E t \in Tasks :
        /\ LoginCancelled(t)
        /\ nOps = 2
        /\ uid # 0 /\ lastAuth = 0 /\ now > lastAuth
        /\ rpcClient = 0 /\ Len(handles) = 1 /\ handles[1] = 1

\* Task t is inside authenticate, called by getConnection after the close.
InAuthenticate(t) == pc[t] \in {"authenticate", "login", "store"}

\* authenticate of task t returns an error in this step.
AuthenticateFails(t) ==
    /\ nOps' = nOps
    /\ InAuthenticate(t)
    /\ pc'[t] = "done"

\* C22: getConnection closes and clears the stored handle before it calls
\* authenticate and leaves uid and lastAuth alone; while authenticate runs, and
\* when it fails (login rejected, connection error, context done), no handle
\* is stored, every handle made so far is closed, uid and lastAuth are what
\* they were, and the session is invalid.  Nothing of this is changed before
\* the next operation, whose getConnection, its context not done, goes on to
\* close and authenticate again; and a login the remote answers with an
\* identity, the context not done and the object endpoint's client made, is
\* stored with a fresh open handle and lastAuth = now, and getConnection
\* returns it.
C22_FailedReauthNotSticky ==
    [][\A t \in Tasks :
        /\ (StepsFrom(t, "close") /\ rpcClient # 0) =>
              /\ handles' = [handles EXCEPT ![rpcClient] = 1]
              /\ rpcClient' = 0 /\ uid' = uid /\ lastAuth' = lastAuth
              /\ pc'[t] = "authenticate"
        /\ InAuthenticate(t) =>
              /\ rpcClient = 0 /\ ~isAuthValid
              /\ \A h \in 1..Len(handles) : handles[h] = 1
        /\ AuthenticateFails(t) =>
              /\ ret'[t].returned /\ ret'[t].err # NilErr /\ callOf'[t] = 0
              /\ UNCHANGED sessionVars
              /\ ~isAuthValid'
        /\ (ret[t].returned /\ ret[t].err # NilErr /\ callOf[t] = 0) =>
              UNCHANGED sessionVars
        /\ (StepsFrom(t, "getConnection") /\ ~isAuthValid /\ ~CtxDone) =>
              pc'[t] = "close"
        /\ (StepsFrom(t, "login") /\ ~obs'[t].rejected) =>
              pc'[t] = "store" /\ authUid'[t] \in Uids
        /\ (StepsFrom(t, "store") /\ ~CtxDone /\ pc'[t] # "done") =>
              /\ pc'[t] = "return"
              /\ uid' = authUid[t] /\ lastAuth' = now
              /\ rpcClient' = Len(handles) + 1 /\ handles' = Append(handles, 0)
        /\ (StepsFrom(t, "return") /\ obs[t].login) =>
              /\ callOf'[t] # 0
              /\ conn'[t] = [uid |-> authUid[t], client |-> Len(handles)]
              /\ handles[conn'[t].client] = 0
      ]_vars

\* The re-authentication of an expired session was rejected: the handle of the
\* first login is closed and cleared, its identity and lastAuth are kept.
C22_Witness ==
    \E t \in Tasks :
        /\ ret[t].returned /\ obs[t].rejected
        /\ ErrorsIs(ret[t].err, "ErrAuthenticationFailed")
        /\ nOps = 2
        /\ uid # 0 /\ lastAuth = 0 /\ now - lastAuth >= authTimeout /\ authTimeout > 0
        /\ rpcClient = 0 /\ handles = <<1>>

\* The remote call of task t's operation ends for the operation in this step:
\* executeRPC or CallOdoo leaves its select, or CallMethod's call returns.
CallEnds(t) == nOps' = nOps /\ pc[t] \in {"select", "call"} /\ pc'[t] = "done"

\* C23, as the specification states it: no step taken once getConnection has
\* returned (the helper's call and its outcome, the select, the return with
\* success, with a classified error or with the context's error) changes uid,
\* rpcClient, lastAuth or the handles; and the next operation, finding the
\* stored handle with now - lastAuth < authTimeout and its context not done,
\* goes on with the stored session without a login.
C23_CallOutcomeLeavesSession ==
    [][\A t \in Tasks :
        /\ (nOps' = nOps /\ callOf[t] # 0) => UNCHANGED sessionVars
        /\ CallEnds(t) => UNCHANGED sessionVars
        /\ (ret[t].returned /\ callOf[t] # 0) => UNCHANGED sessionVars
        /\ (StepsFrom(t, "getConnection") /\ ~CtxDone
              /\ rpcClient # 0 /\ now - lastAuth < authTimeout) =>
              pc'[t] = "return" /\ obs'[t].valid /\ ~obs'[t].login
      ]_vars

\* C24: the helper goroutine of executeRPC and CallOdoo never blocks on its
\* send.  callChan never holds more than its capacity, it is empty as long as
\* the helper has not sent, and a helper whose transport call is in flight can
\* always take the step in which the call returns and its outcome is sent,
\* whether or not its operation is still waiting in the select.
C24_HelperNeverBlocks ==
    \A c \in 1..Len(calls) :
        calls[c].helper =>
            /\ Len(calls[c].chan) <= ChanCap
            /\ calls[c].st # "sent" => calls[c].chan = <<>>
            /\ (Running /\ calls[c].st = "inflight") => ENABLED HelperReturns(c)

\* The helper of an operation that had returned the context's error has sent
\* its outcome, which stays in the channel.
C24_Witness ==
    \E t \in Tasks :
        /\ ret[t].returned /\ ret[t].err.type = "ctx"
        /\ callOf[t] # 0
        /\ calls[callOf[t]].helper /\ calls[callOf[t]].late
        /\ calls[callOf[t]].st = "sent"
        /\ calls[callOf[t]].chan = <<calls[callOf[t]].out>>

\* ------------------------------------------------------------------------
\* Concurrent callers of getConnection (the tasks of UpdateMultiple).

\* C25, as the specification states it: under every interleaving of the tasks
\* sharing the client, the handle getConnection returns without error is not
\* nil and is not closed at the moment it is returned.
C25_ReturnedHandleOpen ==
    [][\A t \in Tasks :
        StepsFrom(t, "return") =>
            /\ conn'[t].client # 0
            /\ handles[conn'[t].client] = 0
      ]_vars

\* The handles of the object endpoint that are not closed.
Unclosed == {h \in 1..Len(handles) : handles[h] = 0}

\* C26: for one caller, no handle is closed twice, at most one handle is
\* unclosed, and that one is the stored one; every handle that is not the
\* stored one has been closed exactly once, and while authenticate runs (so
\* before and during the new login) no handle is stored and all are closed.
C26_HandlesClosedExactlyOnce ==
    /\ \A h \in 1..Len(handles) : handles[h] <= 1
    /\ Cardinality(Unclosed) <= 1
    /\ \A h \in 1..Len(handles) : handles[h] = (IF h = rpcClient THEN 0 ELSE 1)
    /\ rpcClient \in 0..Len(handles)
    /\ \A t \in Tasks :
          (InAuthenticate(t) \/ (obs[t].login /\ callOf[t] = 0 /\ pc[t] # "return")) =>
              rpcClient = 0 /\ Unclosed = {}

\* The handle of the first login has been replaced: it is closed, once, and
\* the handle of the second login is stored and open.
C26_Witness ==
    /\ handles = <<1, 0>>
    /\ rpcClient = 2
    /\ \E t \in Tasks : obs[t].login /\ callOf[t] # 0 /\ conn[t].client = 2

\* ------------------------------------------------------------------------
\* The typed operations and their check of the length of the input.

\* Read, ReadWithLimit and Create return a list; Update and Delete a bool.
ListOps == {"Read", "ReadWithLimit", "Create"}
BoolOps == {"Update", "Delete"}

\* The lengths of ids, data and idDataMap the operations are called with, and
\* the states of the context they are called with.
InputLens == {0, 1}
CtxStates == {""} \cup CtxKinds

\* fmt.Errorf("godoo: no record IDs provided for update") and
\* fmt.Errorf("godoo: no record IDs provided for deletion")
NoIDsError(k) ==
    MkErr("errorString", {},
          <<IF k = "Update" THEN "godoo: no record IDs provided for update"
                            ELSE "godoo: no record IDs provided for deletion">>,
          0, <<>>, <<>>)

\* What the operation k returns for an input of length 0.
EmptyResult(k) ==
    IF k \in ListOps
      THEN [returned |-> TRUE, err |-> NilErr, val |-> "empty"]
      ELSE [returned |-> TRUE, err |-> NoIDsError(k), val |-> "zero"]

\* A call of an operation with a context in the state c and an input of
\* length n, the tasks S running it as k: what it resets.
CalledWith(S, k, n, c) ==
    /\ nOps' = nOps + 1
    /\ ctxErr' = c
    /\ inputLen' = n
    /\ calls' = SelectSeq(calls, Unfinished)
    /\ opKind' = [t \in Tasks |-> IF t \in S THEN k ELSE "Update"]
    /\ obs' = [t \in Tasks |-> NoObs]
    /\ conn' = [t \in Tasks |-> NoConn]
    /\ callOf' = [t \in Tasks |-> 0]
    /\ authUid' = [t \in Tasks |-> 0]

\* A typed operation that calls executeRPC whatever the length of its input.
TypedCallWithoutLengthCheck(k, n, c) ==
    /\ Running
    /\ CallerIdle
    /\ nOps < MaxOps
    /\ CalledWith({1}, k, n, c)
    /\ pc' = [t \in Tasks |-> IF t = 1 THEN "getConnection" ELSE "idle"]
    /\ ret' = [t \in Tasks |-> NoRet]
    /\ batch' = NoBatch
    /\ UNCHANGED <<now, authTimeout, sessionVars, crashed, parseVars, oneVars,
                   newVars>>

\* Read, ReadWithLimit, Create, Update or Delete is called: for an input of
\* length 0 it returns at once, else it calls executeRPC.
TypedCall(k, n, c) ==
    /\ Running
    /\ CallerIdle
    /\ nOps < MaxOps
    /\ CalledWith({1}, k, n, c)
    /\ IF n = 0
         THEN /\ pc' = [t \in Tasks |-> IF t = 1 THEN "done" ELSE "idle"]
              /\ ret' = [t \in Tasks |-> IF t = 1 THEN EmptyResult(k) ELSE NoRet]
         ELSE /\ pc' = [t \in Tasks |-> IF t = 1 THEN "getConnection" ELSE "idle"]
              /\ ret' = [t \in Tasks |-> NoRet]
    /\ batch' = NoBatch
    /\ UNCHANGED <<now, authTimeout, sessionVars, crashed, parseVars, oneVars,
                   newVars>>

\* UpdateMultiple is called with a context in the state c and the records 1..n.
UpdateMultipleCall(n, c) ==
    /\ Running
    /\ CallerIdle
    /\ nOps < MaxOps
    /\ CalledWith(1..n, ChildKind, n, c)
    /\ pc' = [t \in Tasks |-> IF t \in 1..n THEN "getConnection" ELSE "idle"]
    /\ ret' = [t \in Tasks |-> NoRet]
    /\ batch' = IF n = 0 THEN [NoBatch EXCEPT !.st = "returned"]
                         ELSE [NoBatch EXCEPT !.st = "running", !.kids = 1..n]
    /\ UNCHANGED <<now, authTimeout, sessionVars, crashed, parseVars, oneVars,
                   newVars>>

\* One call of a typed operation or of UpdateMultiple, with or without input,
\* on a client as an earlier operation left it.
NextEmpty ==
    \/ \E k \in ListOps \cup BoolOps, n \in InputLens, c \in CtxStates : TypedCall(k, n, c)
    \/ \E n \in InputLens, c \in CtxStates : UpdateMultipleCall(n, c)
    \/ UpdateMultipleJoin
    \/ Step

SpecEmpty == InitBatch /\ [][NextEmpty]_vars

\* The session as InitBatch draws it: nothing of it has been touched.
SessionAsCalled ==
    \/ uid = 0 /\ rpcClient = 0 /\ lastAuth = ZeroTime /\ handles = <<>>
    \/ uid = 1 /\ rpcClient = 1 /\ lastAuth = 0 /\ handles = <<0>>

\* The operation has made no login and no remote call and has left the session
\* alone.
DecidedLocally ==
    /\ \A t \in Tasks : ~obs[t].login /\ callOf[t] = 0 /\ conn[t] = NoConn
    /\ calls = <<>>
    /\ SessionAsCalled

\* C27: an operation called with an input of length 0 has returned, whatever
\* the session and the context: Read, ReadWithLimit and Create an empty list and
\* nil, Update and Delete false and an error, UpdateMultiple an empty map and
\* nil; no login and no remote call was made, and the session is untouched.
C27_EmptyInputDecidedLocally ==
    /\ (inputLen = 0 /\ pc[1] # "idle" /\ opKind[1] \in ListOps) =>
          /\ pc[1] = "done"
          /\ ret[1] = [returned |-> TRUE, err |-> NilErr, val |-> "empty"]
          /\ DecidedLocally
    /\ (inputLen = 0 /\ pc[1] # "idle" /\ opKind[1] \in BoolOps) =>
          /\ pc[1] = "done"
          /\ ret[1].returned /\ ret[1].val = "zero"
          /\ ret[1].err # NilErr /\ ret[1].err.type # "ctx"
          /\ DecidedLocally
    /\ (inputLen = 0 /\ batch.st # "idle") =>
          /\ batch = [st |-> "returned", kids |-> {}, failed |-> {}, mapNil |-> FALSE,
                      err |-> NilErr]
          /\ \A t \in Tasks : pc[t] = "idle"
          /\ DecidedLocally

\* Delete, called with no ids, a done context and an expired session, has
\* returned false and its error; the handle is stored and open still.
C27_Witness ==
    /\ inputLen = 0 /\ opKind[1] = "Delete" /\ pc[1] = "done"
    /\ ret[1] = [returned |-> TRUE, err |-> NoIDsError("Delete"), val |-> "zero"]
    /\ CtxDone
    /\ rpcClient = 1 /\ handles = <<0>> /\ now - lastAuth >= authTimeout

\* C28: with authTimeout <= 0 the session is never valid: getConnection, its
\* context not done, always goes on to close the stored handle and to
\* authenticate, and an operation that has got to its remote call has made a
\* login and calls with the handle of that login, the newest one, every older
\* handle being closed.
C28_ZeroTimeoutAlwaysLogsIn ==
    [][authTimeout <= 0 =>
        /\ ~isAuthValid /\ ~isAuthValid'
        /\ \A t \in Tasks :
            /\ (StepsFrom(t, "getConnection") /\ ~CtxDone) => pc'[t] = "close"
            /\ (StepsFrom(t, "close") /\ rpcClient # 0) =>
                  rpcClient' = 0 /\ handles'[rpcClient] = 1
            /\ callOf'[t] # 0 =>
                  /\ ~obs'[t].valid /\ obs'[t].login
                  /\ conn'[t].client = Len(handles')
                  /\ calls'[callOf'[t]].handle = conn'[t].client
                  /\ \A h \in 1..(Len(handles') - 1) : handles'[h] = 1
      ]_vars

\* With authTimeout <= 0, a second operation called in the instant of the
\* first one's login has closed that login's handle and made a login of its
\* own for its call.
C28_Witness ==
    \E t \in Tasks :
        /\ authTimeout <= 0
        /\ nOps = 2 /\ now = lastAuth
        /\ callOf[t] # 0 /\ obs[t].login
        /\ handles = <<1, 0>> /\ conn[t].client = 2
        /\ uid # 0

====
